---- MODULE Spec2Model ----
(***************************************************************************)
(* A model of embassy-pico-mano: the FrameBuffer draw target of           *)
(* src/display.rs and the animation scheduler of src/main.rs (bouncing    *)
(* text, orbiting circles, random pixel field, tunnel, FPS report).       *)
(*                                                                         *)
(* The display of main.rs is modelled as a recording draw target: `calls` *)
(* holds the draw calls issued by the last step, `drawn` counts the draw  *)
(* calls of the running animation invocation by kind.                     *)
(* A u32 is kept as the pair <<high 16 bits, low 16 bits>>.               *)
(***************************************************************************)
EXTENDS Integers, Sequences, FiniteSets, TLC

VARIABLES
    pc,         \* position of main(): which call or loop the program is in
    anim,       \* the animation that runs or has just returned
    pass,       \* completed passes of the `loop` of main()
    rng,        \* Rng.0, the 32-bit xorshift state
    led,        \* level of the indicator output (TRUE = high)
    i,          \* loop counter of the running animation
    pos,        \* animation_text: pos, <<x, y>>
    vel,        \* animation_text: vel, <<x, y>>
    color_idx,  \* animation_text: color_idx
    hit,        \* animation_text: hit of the last loop iteration
    ring_pos,   \* animation_tunnel: ring_pos[0..9], here 1..10
    waited,     \* microseconds of Timer::after completed since `start`, and
                \* in main() the length of the delay after show_fps
    dur,        \* the Duration an animation returned, in microseconds
    calls,      \* draw calls issued on the display by the last step
    drawn,      \* draw calls of the running invocation, counted by kind
    pixels,     \* FrameBuffer.pixels, a function on 0..FbWidth*FbHeight-1
    fb_op,      \* the last operation applied to the FrameBuffer: its
                \* arguments, its result, the buffer before it (`before`)
                \* and the number of operations so far (`n`)
    frame,      \* the per-frame loop with touch sampling: the frames
                \* presented (`n`), and for the current frame the queries of
                \* the touch source (`polls`) and the last sample (`sample`)
    lit,        \* the display during animation_text: the positions at which
                \* the text has been drawn and whose bounding box no clear
                \* and no erase rectangle has covered since
    bg          \* the display: the colour of the last display.clear

\* the state of main()
mainVars == <<pc, anim, pass, rng, led, i, pos, vel, color_idx, hit, ring_pos,
              waited, dur, calls, drawn, frame, lit, bg>>

vars == <<pc, anim, pass, rng, led, i, pos, vel, color_idx, hit, ring_pos,
          waited, dur, calls, drawn, pixels, fb_op, frame, lit, bg>>

(***************************************************************************)
(* Program constants                                                       *)
(***************************************************************************)
WIDTH == 240
HEIGHT == 320

\* the bytes of "-=Ewen=-", drawn in FONT_10X20 (glyphs of 10 x 20 pixels)
TEXT == <<45, 61, 69, 119, 101, 110, 61, 45>>
FontWidth == 10
FontHeight == 20
text_width == Len(TEXT) * FontWidth
text_height == FontHeight

TextSteps == 1000
NumCircles == 12
CircleRadius == 30
CircleDelayUs == 50000
TextDelayUs == 5000
StrokeWidth == 2

\* Rgb565 colours as <<r, g, b>> with r, b in 0..31 and g in 0..63
BLACK == <<0, 0, 0>>
WHITE == <<31, 63, 31>>
RED == <<31, 0, 0>>
GREEN == <<0, 63, 0>>
BLUE == <<0, 0, 31>>
MAGENTA == <<31, 0, 31>>
CYAN == <<0, 63, 31>>

CIRCLE_COLORS ==
    << RED, GREEN, BLUE, BLACK, MAGENTA, CYAN,
       <<31, 31, 0>>, <<31, 15, 0>>, <<15, 31, 0>>,
       <<0, 31, 15>>, <<15, 0, 31>>, <<31, 0, 15>> >>

\* CIRCLE_COLORS[k] of the source (0-based)
ColorAt(k) == CIRCLE_COLORS[k + 1]

(***************************************************************************)
(* Bounds of the model                                                     *)
(***************************************************************************)
\* passes of the loop of main() that the scheduler model runs
MaxPasses == 2
\* passes of the loop of main() whose bouncing-text invocation is explored
TextPasses == 48
\* the FrameBuffer is checked with FbWidth x FbHeight cells in the place of
\* the WIDTH x HEIGHT of display.rs, and for runs of MaxFbOps operations
FbWidth == 2
FbHeight == 3
MaxFbOps == 2
\* show_fps is checked for the durations FpsDurations built from 1..MaxFpsArg
MaxFpsArg == 40
\* an Rng is followed for MaxRngCalls calls of next() from each seed
MaxRngCalls == 200
\* frames of the per-frame loop with touch sampling
MaxFrames == 8

(***************************************************************************)
(* FrameBuffer (display.rs)                                                *)
(***************************************************************************)
\* the colours written in the FrameBuffer runs
FbColors == {BLACK, WHITE}
\* the coordinates drawn: every cell and one step outside on each side
FbXs == -1..FbWidth
FbYs == -1..FbHeight

\* variant of InBounds without the test coord.x < WIDTH (C1 depends on it)
InBoundsNoXMax(x, y) == x >= 0 /\ y >= 0 /\ y < FbHeight
\* coord.x >= 0 && coord.x < WIDTH && coord.y >= 0 && coord.y < HEIGHT
InBounds(x, y) == x >= 0 /\ x < FbWidth /\ y >= 0 /\ y < FbHeight

\* variant of Index that counts down the columns (C2 depends on the order)
IndexColumnMajor(x, y) == x * FbHeight + y
\* coord.y as usize * WIDTH + coord.x as usize
Index(x, y) == y * FbWidth + x

Pixel(x, y, c) == [x |-> x, y |-> y, color |-> c]

RECURSIVE DrawIter(_, _)
\* the buffer after draw_iter(px): the loop over the pixels of the iterator
DrawIter(buf, px) ==
    IF px = << >> THEN buf
    ELSE LET p == Head(px)
             nb == IF InBounds(p.x, p.y)
                   THEN [buf EXCEPT ![Index(p.x, p.y)] = p.color]
                   ELSE buf
         IN  DrawIter(nb, Tail(px))

\* variant of Fill that stops one cell short (C3 depends on the last cell)
FillButLast(buf, c) ==
    [k \in DOMAIN buf |-> IF k = FbWidth * FbHeight - 1 THEN buf[k] ELSE c]
\* pixels.fill(color)
Fill(buf, c) == [k \in DOMAIN buf |-> c]

\* draw_iter with an iterator of one pixel; it returns Ok(())
FbDrawPixel ==
    /\ fb_op.n < MaxFbOps
    /\ \E x \in FbXs, y \in FbYs, c \in FbColors :
          /\ pixels' = DrawIter(pixels, << Pixel(x, y, c) >>)
          /\ fb_op' = [op |-> "draw_iter", x |-> x, y |-> y, color |-> c,
                       ret |-> "Ok", before |-> pixels, n |-> fb_op.n + 1]
    /\ UNCHANGED mainVars

\* FrameBuffer::clear(color)
FbClear ==
    /\ fb_op.n < MaxFbOps
    /\ \E c \in FbColors :
          /\ pixels' = Fill(pixels, c)
          /\ fb_op' = [op |-> "clear", color |-> c, before |-> pixels,
                       n |-> fb_op.n + 1]
    /\ UNCHANGED mainVars

(***************************************************************************)
(* Rng: xorshift32 on <<hi, lo>>                                           *)
(***************************************************************************)
RECURSIVE XorBits(_, _, _)
\* bitwise exclusive or of two n-bit naturals, bit by bit
XorBits(a, b, n) ==
    IF n = 0 THEN 0
    ELSE (((a % 2) + (b % 2)) % 2) + 2 * XorBits(a \div 2, b \div 2, n - 1)

\* the exclusive or of two 4-bit naturals, tabulated
Xor4 == [a \in 0..15 |-> [b \in 0..15 |-> XorBits(a, b, 4)]]

\* the exclusive or of two 16-bit naturals, four bits at a time
Xor16(a, b) ==
    Xor4[a % 16][b % 16]
    + 16 * Xor4[(a \div 16) % 16][(b \div 16) % 16]
    + 256 * Xor4[(a \div 256) % 16][(b \div 256) % 16]
    + 4096 * Xor4[a \div 4096][b \div 4096]

Xor32(s, t) == << Xor16(s[1], t[1]), Xor16(s[2], t[2]) >>

\* s << 13, s >> 17, s << 5 with 32-bit truncation
Shl13(s) == << (s[1] % 8) * 8192 + (s[2] \div 8), (s[2] % 8) * 8192 >>
Shr17(s) == << 0, s[1] \div 2 >>
Shl5(s) == << (s[1] % 2048) * 32 + (s[2] \div 2048), (s[2] % 2048) * 32 >>

\* variant of Rng_next whose first statement assigns the shifted state in the
\* place of ^= (C13 depends on every statement being an exclusive or with
\* the state itself)
Rng_nextAssignShift(s) ==
    LET a == Shl13(s)
        b == Xor32(a, Shr17(a))
    IN  Xor32(b, Shl5(b))
\* the state after next(); next() returns that state
Rng_next(s) ==
    LET a == Xor32(s, Shl13(s))
        b == Xor32(a, Shr17(a))
    IN  Xor32(b, Shl5(b))

\* u32 % m for 0 < m <= 1024
Mod32(s, m) == ((s[1] % m) * (65536 % m) + (s[2] % m)) % m

\* Rng::new(0xACE1)
Seed == << 0, 44257 >>

\* Rng.0 when animation_text is entered on pass k+1 of the loop of main():
\* each pass draws 2 numbers in animation_text and 6 * 2400 in
\* animation_pixels, so entry k is next() applied 14402 * k times to Seed.
TextEntry ==
    << <<0, 44257>>, <<38392, 12219>>, <<36487, 59472>>, <<55708, 14769>>,
       <<19656, 45966>>, <<61622, 26610>>, <<44332, 36561>>, <<50406, 9278>>,
       <<55023, 49113>>, <<18601, 58311>>, <<34925, 49532>>, <<10734, 46638>>,
       <<33900, 48020>>, <<50850, 46930>>, <<35778, 54361>>, <<22890, 51949>>,
       <<26079, 18975>>, <<61928, 25278>>, <<21779, 34492>>, <<20399, 15016>>,
       <<50426, 35561>>, <<47546, 46133>>, <<48212, 44739>>, <<2305, 31262>>,
       <<13334, 43818>>, <<37373, 5350>>, <<26825, 9130>>, <<12172, 18779>>,
       <<5669, 29359>>, <<36776, 52913>>, <<59008, 55174>>, <<47877, 50406>>,
       <<34635, 45706>>, <<17282, 9166>>, <<49300, 51198>>, <<37585, 2771>>,
       <<37380, 54828>>, <<15718, 13164>>, <<32472, 51590>>, <<5830, 16374>>,
       <<39615, 38520>>, <<24635, 41969>>, <<17946, 56279>>, <<33656, 33134>>,
       <<9824, 15170>>, <<64693, 35967>>, <<656, 29736>>, <<14381, 30534>>,
       <<14486, 61395>>, <<3969, 10934>>, <<6545, 50067>>, <<26745, 12670>>,
       <<10310, 60280>>, <<20643, 49162>>, <<43938, 43452>>, <<54806, 43023>> >>

(***************************************************************************)
(* The recording draw target                                               *)
(***************************************************************************)
\* display.clear(color)
ClearCall(c) == [op |-> "clear", color |-> c]

\* Rectangle::new(top_left, size).into_styled(with_fill(color)).draw(display);
\* anchor "bbox" stands for the bounding box of TEXT drawn at <<x, y>>
RectCall(anchor, x, y, w, h, c) ==
    [op |-> "fill_rect", anchor |-> anchor, x |-> x, y |-> y,
     w |-> w, h |-> h, color |-> c]

\* Text::new(str, Point::new(x, y), MonoTextStyle::new(&FONT_10X20, color))
TextCall(str, x, y, c) ==
    [op |-> "text", str |-> str, x |-> x, y |-> y, color |-> c]

\* Circle::new(centre - (radius, radius), 2 * radius) stroked with `c`, whose
\* centre is the display centre moved by `orbit` pixels in direction `deg`
CircleCall(idx, orbit, deg, radius, c) ==
    [op |-> "circle", idx |-> idx, orbit |-> orbit, deg |-> deg,
     radius |-> radius, color |-> c, stroke |-> StrokeWidth]

\* Option::None of a touch sample; Some((x, y)) is <<x, y>>
None == << >>

\* the per-frame loop has not run
NoFrame == [n |-> 0, polls |-> 0, sample |-> None]

NoneDrawn == [clear |-> 0, fill_rect |-> 0, text |-> 0, circle |-> 0]

CountOp(cs, op) == Cardinality({k \in 1..Len(cs) : cs[k].op = op})

\* the counts `d` after the draw calls `cs`
Count(d, cs) ==
    [clear |-> d.clear + CountOp(cs, "clear"),
     fill_rect |-> d.fill_rect + CountOp(cs, "fill_rect"),
     text |-> d.text + CountOp(cs, "text"),
     circle |-> d.circle + CountOp(cs, "circle")]

\* the display has not been cleared: what it shows is not known
NoBackground == << >>

RECURSIVE Background(_, _)
\* the colour of the last clear after the draw calls cs on a display whose
\* last clear was to b
Background(b, cs) ==
    IF cs = << >> THEN b
    ELSE Background(IF Head(cs).op = "clear" THEN Head(cs).color ELSE b,
                    Tail(cs))

\* the rectangle r covers the bounding box of the text drawn at q (both are
\* placed alike from their position, so only sizes and positions count)
Covers(r, q) ==
    /\ r.x <= q[1] /\ q[1] + text_width <= r.x + r.w
    /\ r.y <= q[2] /\ q[2] + text_height <= r.y + r.h

\* the text positions left on the display after one draw call on BLACK
PaintOne(l, c) ==
    CASE c.op = "clear" -> {}
      [] c.op = "fill_rect" -> {q \in l : ~Covers(c, q)}
      [] c.op = "text" -> l \cup {<<c.x, c.y>>}
      [] OTHER -> l

RECURSIVE Paint(_, _)
\* the text positions left on the display after the draw calls cs
Paint(l, cs) ==
    IF cs = << >> THEN l ELSE Paint(PaintOne(l, Head(cs)), Tail(cs))

(***************************************************************************)
(* animation_text                                                          *)
(***************************************************************************)
\* variant of CrossX without the test of the left edge (C6 depends on it)
CrossXNoLeft(nx) == nx + text_width >= WIDTH
\* next_pos.x <= 0 || next_pos.x + text_width >= bounds.size.width
CrossX(nx) == nx <= 0 \/ nx + text_width >= WIDTH

\* variant of CrossY without the test of the top edge (C4 depends on it)
CrossYNoTop(ny) == ny + text_height >= HEIGHT
\* next_pos.y <= 0 || next_pos.y + text_height >= bounds.size.height
CrossY(ny) == ny <= 0 \/ ny + text_height >= HEIGHT

\* the velocity after the two boundary tests on next_pos = p + v
Reflect(p, v) ==
    << IF CrossX(p[1] + v[1]) THEN -v[1] ELSE v[1],
       IF CrossY(p[2] + v[2]) THEN -v[2] ELSE v[2] >>

\* hit: one of the two boundary tests on next_pos = p + v was true
Hit(p, v) == CrossX(p[1] + v[1]) \/ CrossY(p[2] + v[2])

\* variant of NextColorIdx without the second step past BLACK (C7 depends
\* on it)
NextColorIdxNoSkip(c) == (c + 1) % Len(CIRCLE_COLORS)
\* color_idx after a hit: one step round the palette, a second one off BLACK
NextColorIdx(c) ==
    LET n == (c + 1) % Len(CIRCLE_COLORS)
    IN  IF ColorAt(n) = BLACK THEN (n + 1) % Len(CIRCLE_COLORS) ELSE n

\* variant of TextSetup in which the invocation takes its numbers from a
\* generator of its own, created from the seed, and leaves that of main() as
\* it was (C15 as amended depends on the generator being the one of main())
TextSetupOwnRng ==
    /\ pc = "text_setup"
    /\ LET s1 == Rng_next(Seed)
           s2 == Rng_next(s1)
       IN  /\ rng' = rng
           /\ pos' = << Mod32(s1, WIDTH - text_width),
                        Mod32(s2, HEIGHT - text_height) + text_height >>
    /\ vel' = <<2, 2>>
    /\ color_idx' = 0
    /\ i' = 0
    /\ waited' = 0
    /\ calls' = << ClearCall(BLACK) >>
    /\ drawn' = Count(NoneDrawn, calls')
    /\ pc' = "text_loop"
    /\ anim' = "text"
    /\ lit' = Paint(lit, calls')
    /\ bg' = Background(bg, calls')
    /\ UNCHANGED <<pass, led, hit, ring_pos, dur, pixels, fb_op, frame>>
\* the setup: two numbers from the generator place the text, then the clear
TextSetup ==
    /\ pc = "text_setup"
    /\ LET s1 == Rng_next(rng)
           s2 == Rng_next(s1)
       IN  /\ rng' = s2
           /\ pos' = << Mod32(s1, WIDTH - text_width),
                        Mod32(s2, HEIGHT - text_height) + text_height >>
    /\ vel' = <<2, 2>>
    /\ color_idx' = 0
    /\ i' = 0
    /\ waited' = 0
    /\ calls' = << ClearCall(BLACK) >>
    /\ drawn' = Count(NoneDrawn, calls')
    /\ pc' = "text_loop"
    /\ anim' = "text"
    /\ lit' = Paint(lit, calls')
    /\ bg' = Background(bg, calls')
    /\ UNCHANGED <<pass, led, hit, ring_pos, dur, pixels, fb_op, frame>>

\* variant of LedAfter that never sets the output low (C17 depends on
\* led.set_low() in the step without a hit)
LedAfterNeverLow(h) == TRUE
\* the level of the indicator after `if hit { set_high } else { set_low }`
LedAfter(h) == h

\* variant of EraseCall whose rectangle is one glyph narrower than the text
\* (C20 depends on the rectangle covering the whole bounding box)
EraseCallNarrow(p) ==
    RectCall("bbox", p[1], p[2], text_width - FontWidth, text_height, BLACK)
\* the erase: a BLACK rectangle on the bounding box of the text at p
EraseCall(p) == RectCall("bbox", p[1], p[2], text_width, text_height, BLACK)

\* one iteration of `for _ in 0..1000`, up to the end of its Timer::after
TextStep ==
    /\ pc = "text_loop"
    /\ i < TextSteps
    /\ vel' = Reflect(pos, vel)
    /\ hit' = Hit(pos, vel)
    /\ color_idx' = IF hit' THEN NextColorIdx(color_idx) ELSE color_idx
    /\ led' = LedAfter(hit')
    /\ pos' = << pos[1] + vel'[1], pos[2] + vel'[2] >>
    /\ calls' = << EraseCall(pos),
                   TextCall(TEXT, pos'[1], pos'[2], ColorAt(color_idx')) >>
    /\ drawn' = Count(drawn, calls')
    /\ waited' = waited + TextDelayUs
    /\ i' = i + 1
    /\ lit' = Paint(lit, calls')
    /\ bg' = Background(bg, calls')
    /\ UNCHANGED <<pc, anim, pass, rng, ring_pos, dur, pixels, fb_op, frame>>

\* start.elapsed(): the timers that completed plus the time the code took
DrawTimes == {0, 20000}
Elapsed(w) == {w + t : t \in DrawTimes}

\* the loop is over: animation_text returns start.elapsed()
TextReturn ==
    /\ pc = "text_loop"
    /\ i = TextSteps
    /\ dur' \in Elapsed(waited)
    /\ calls' = << >>
    /\ pc' = "show_fps"
    /\ UNCHANGED <<anim, pass, rng, led, i, pos, vel, color_idx, hit, ring_pos,
                   waited, drawn, pixels, fb_op, frame, lit, bg>>

(***************************************************************************)
(* animation_circles                                                       *)
(***************************************************************************)
\* variant of CirclesSetupCalls without the circle at the centre (C10 as
\* amended depends on it)
CirclesSetupNoCentre == << ClearCall(WHITE) >>
\* the draw calls before the loop: the clear and the circle at the centre
CirclesSetupCalls ==
    << ClearCall(WHITE), CircleCall(-1, 0, 0, CircleRadius, BLACK) >>

\* the satellite of loop index k: angle_deg = k * 30
Satellite(k) ==
    CircleCall(k, CircleRadius, k * 30, CircleRadius,
               ColorAt(k % Len(CIRCLE_COLORS)))

CirclesSetup ==
    /\ pc = "circles_setup"
    /\ calls' = CirclesSetupCalls
    /\ drawn' = Count(NoneDrawn, calls')
    /\ i' = 0
    /\ waited' = 0
    /\ pc' = "circles_loop"
    /\ anim' = "circles"
    /\ bg' = Background(bg, calls')
    /\ UNCHANGED <<pass, rng, led, pos, vel, color_idx, hit, ring_pos, dur,
                   pixels, fb_op, frame, lit>>

\* an iteration of `for i in 0..12` up to its Timer::after
CirclesDraw ==
    /\ pc = "circles_loop"
    /\ i < NumCircles
    /\ calls' = << Satellite(i) >>
    /\ drawn' = Count(drawn, calls')
    /\ led' = TRUE
    /\ pc' = "circles_wait"
    /\ UNCHANGED <<anim, pass, rng, i, pos, vel, color_idx, hit, ring_pos,
                   waited, dur, pixels, fb_op, frame, lit, bg>>

\* variant of CirclesWake that leaves the loop index as it is (C16 depends on
\* the index moving on in every iteration)
CirclesWakeNoAdvance ==
    /\ pc = "circles_wait"
    /\ waited' = waited + CircleDelayUs
    /\ led' = FALSE
    /\ i' = i
    /\ calls' = << >>
    /\ pc' = "circles_loop"
    /\ UNCHANGED <<anim, pass, rng, pos, vel, color_idx, hit, ring_pos, dur,
                   drawn, pixels, fb_op, frame, lit, bg>>
\* the Timer::after of the iteration completes
CirclesWake ==
    /\ pc = "circles_wait"
    /\ waited' = waited + CircleDelayUs
    /\ led' = FALSE
    /\ i' = i + 1
    /\ calls' = << >>
    /\ pc' = "circles_loop"
    /\ UNCHANGED <<anim, pass, rng, pos, vel, color_idx, hit, ring_pos, dur,
                   drawn, pixels, fb_op, frame, lit, bg>>

CirclesReturn ==
    /\ pc = "circles_loop"
    /\ i = NumCircles
    /\ dur' \in Elapsed(waited)
    /\ calls' = << >>
    /\ pc' = "show_fps"
    /\ UNCHANGED <<anim, pass, rng, led, i, pos, vel, color_idx, hit, ring_pos,
                   waited, drawn, pixels, fb_op, frame, lit, bg>>

(***************************************************************************)
(* animation_pixels                                                        *)
(***************************************************************************)
BlockSize == 4
PixelDelayUs == 1000
\* (size.width * size.height) / 32
PixelIters == (WIDTH * HEIGHT) \div 32

\* Rgb565::new(r, g, b) of three generator states
MaskedColor(s1, s2, s3) == << s1[2] % 32, s2[2] % 64, s3[2] % 32 >>

\* variant of GridCoord that takes the number modulo the size and not modulo
\* the quarter of it (C18 depends on the division by 4)
GridCoordWholeSize(s, size) == Mod32(s, size) * BlockSize
\* ((rng.next() % (size / 4)) * 4
GridCoord(s, size) == Mod32(s, size \div BlockSize) * BlockSize

PixelsSetup ==
    /\ pc = "pixels_setup"
    /\ calls' = << ClearCall(WHITE) >>
    /\ drawn' = Count(NoneDrawn, calls')
    /\ i' = 0
    /\ waited' = 0
    /\ pc' = "pixels_loop"
    /\ anim' = "pixels"
    /\ bg' = Background(bg, calls')
    /\ UNCHANGED <<pass, rng, led, pos, vel, color_idx, hit, ring_pos, dur,
                   pixels, fb_op, frame, lit>>

\* an iteration of the loop: six numbers from the generator, one block, and
\* the indicator pulse when the sixth number is a multiple of 100
PixelsStep ==
    /\ pc = "pixels_loop"
    /\ i < PixelIters
    /\ LET s1 == Rng_next(rng)
           s2 == Rng_next(s1)
           s3 == Rng_next(s2)
           s4 == Rng_next(s3)
           s5 == Rng_next(s4)
           s6 == Rng_next(s5)
       IN  /\ rng' = s6
           /\ calls' = << RectCall("top_left", GridCoord(s4, WIDTH),
                                   GridCoord(s5, HEIGHT), BlockSize, BlockSize,
                                   MaskedColor(s1, s2, s3)) >>
           /\ IF Mod32(s6, 100) = 0
              THEN led' = TRUE /\ pc' = "pixels_wait" /\ i' = i
              ELSE led' = led /\ pc' = pc /\ i' = i + 1
    /\ drawn' = Count(drawn, calls')
    /\ UNCHANGED <<anim, pass, pos, vel, color_idx, hit, ring_pos, waited, dur,
                   pixels, fb_op, frame, lit, bg>>

\* the Timer::after of the pulse completes
PixelsWake ==
    /\ pc = "pixels_wait"
    /\ waited' = waited + PixelDelayUs
    /\ led' = FALSE
    /\ i' = i + 1
    /\ calls' = << >>
    /\ pc' = "pixels_loop"
    /\ UNCHANGED <<anim, pass, rng, pos, vel, color_idx, hit, ring_pos, dur,
                   drawn, pixels, fb_op, frame, lit, bg>>

PixelsReturn ==
    /\ pc = "pixels_loop"
    /\ i = PixelIters
    /\ dur' \in Elapsed(waited)
    /\ calls' = << >>
    /\ pc' = "show_fps"
    /\ UNCHANGED <<anim, pass, rng, led, i, pos, vel, color_idx, hit, ring_pos,
                   waited, drawn, pixels, fb_op, frame, lit, bg>>

(***************************************************************************)
(* animation_tunnel                                                        *)
(***************************************************************************)
NumRings == 10
RingSpacing == 20
DepthStep == 4
MaxDepth == 200
RadiusDivisor == 120
TunnelFrames == 300
TunnelDelayUs == 100

\* variant of AdvanceDepth that goes back to 0 already at the maximum (C8
\* depends on the strict comparison)
AdvanceDepthAtMax(d) == IF d + DepthStep >= MaxDepth THEN 0 ELSE d + DepthStep
\* ring_pos[i] += 4.0; if ring_pos[i] > 200.0 { ring_pos[i] = 0.0 }
\* (every depth is a multiple of 4 below 2^24, which f32 holds exactly)
AdvanceDepth(d) == IF d + DepthStep > MaxDepth THEN 0 ELSE d + DepthStep

\* ((ring_pos[i] * ring_pos[i]) / 120.0) as u32 + 2
TunnelRadius(d) == ((d * d) \div RadiusDivisor) + 2

\* the palette colour of ring k (0-based)
RingColor(k) == ColorAt(k % Len(CIRCLE_COLORS))

\* variant of RingSkipped that skips no ring (C9 depends on the skip)
RingSkippedNever(k) == FALSE
\* `continue` when the colour of ring k is BLACK
RingSkipped(k) == RingColor(k) = BLACK

\* the circles of one frame, ring after ring, for the depths rp
RingCalls(rp) ==
    LET all == [k \in 1..NumRings |->
                   CircleCall(k - 1, 0, 0, TunnelRadius(rp[k]), RingColor(k - 1))]
    IN  SelectSeq(all, LAMBDA c : ~RingSkipped(c.idx))

TunnelSetup ==
    /\ pc = "tunnel_setup"
    /\ ring_pos' = [k \in 1..NumRings |-> (k - 1) * RingSpacing]
    /\ i' = 0
    /\ waited' = 0
    /\ calls' = << >>
    /\ drawn' = NoneDrawn
    /\ pc' = "tunnel_loop"
    /\ anim' = "tunnel"
    /\ UNCHANGED <<pass, rng, led, pos, vel, color_idx, hit, dur, pixels, fb_op,
                   frame, lit, bg>>

\* one frame of `for _ in 0..300`, up to the end of its Timer::after
TunnelFrame ==
    /\ pc = "tunnel_loop"
    /\ i < TunnelFrames
    /\ ring_pos' = [k \in 1..NumRings |-> AdvanceDepth(ring_pos[k])]
    /\ calls' = << ClearCall(BLACK) >> \o RingCalls(ring_pos')
    /\ drawn' = Count(drawn, calls')
    /\ led' = ~led
    /\ waited' = waited + TunnelDelayUs
    /\ i' = i + 1
    /\ bg' = Background(bg, calls')
    /\ UNCHANGED <<pc, anim, pass, rng, pos, vel, color_idx, hit, dur, pixels,
                   fb_op, frame, lit>>

TunnelReturn ==
    /\ pc = "tunnel_loop"
    /\ i = TunnelFrames
    /\ dur' \in Elapsed(waited)
    /\ calls' = << >>
    /\ pc' = "show_fps"
    /\ UNCHANGED <<anim, pass, rng, led, i, pos, vel, color_idx, hit, ring_pos,
                   waited, drawn, pixels, fb_op, frame, lit, bg>>

(***************************************************************************)
(* show_fps and the loop of main()                                         *)
(***************************************************************************)
MicrosPerSecond == 1000000
FpsX == 10
FpsY == 20
AsciiZero == 48
LoopDelayUs == 1000000

RECURSIVE Temp(_)
\* temp[0..j]: the digits of val, least significant first
Temp(val) ==
    IF val = 0 THEN << >>
    ELSE << (val % 10) + AsciiZero >> \o Temp(val \div 10)

\* variant of FpsText that copies temp from its first digit on (C11 depends
\* on the order of the digits)
FpsTextNotReversed(fps) == IF fps = 0 THEN << AsciiZero >> ELSE Temp(fps)
\* buf[..i]: "0" for 0, else temp copied from its last digit to its first
FpsText(fps) ==
    IF fps = 0 THEN << AsciiZero >>
    ELSE LET t == Temp(fps) IN [k \in 1..Len(t) |-> t[Len(t) + 1 - k]]

\* the draw calls of show_fps(display, duration)
ShowFpsCalls(micros) ==
    IF micros > 0
    THEN << TextCall(FpsText(MicrosPerSecond \div micros), FpsX, FpsY, BLACK) >>
    ELSE << >>

ShowFps ==
    /\ pc = "show_fps"
    /\ calls' = ShowFpsCalls(dur)
    /\ pc' = "delay"
    /\ UNCHANGED <<anim, pass, rng, led, i, pos, vel, color_idx, hit, ring_pos,
                   waited, dur, drawn, pixels, fb_op, frame, lit, bg>>

\* variant of NextAnim with the circles and the pixel field exchanged (C12
\* depends on the order of the calls)
NextAnimSwapped(a) ==
    CASE a = "text" -> "pixels"
      [] a = "pixels" -> "circles"
      [] a = "circles" -> "tunnel"
      [] a = "tunnel" -> "text"
\* the animation main() calls after `a`
NextAnim(a) ==
    CASE a = "text" -> "circles"
      [] a = "circles" -> "pixels"
      [] a = "pixels" -> "tunnel"
      [] a = "tunnel" -> "text"

SetupOf(a) ==
    CASE a = "text" -> "text_setup"
      [] a = "circles" -> "circles_setup"
      [] a = "pixels" -> "pixels_setup"
      [] a = "tunnel" -> "tunnel_setup"

\* Timer::after(Duration::from_secs(1)) completes; after the tunnel the loop
\* starts its next pass
Delay ==
    /\ pc = "delay"
    /\ anim = "tunnel" => pass + 1 < MaxPasses
    /\ pass' = IF anim = "tunnel" THEN pass + 1 ELSE pass
    /\ pc' = SetupOf(NextAnim(anim))
    /\ waited' = LoopDelayUs
    /\ calls' = << >>
    /\ UNCHANGED <<anim, rng, led, i, pos, vel, color_idx, hit, ring_pos,
                   dur, drawn, pixels, fb_op, frame, lit, bg>>

(***************************************************************************)
(* The program: main() from the creation of led and rng                   *)
(***************************************************************************)
Init ==
    /\ pc = "text_setup"
    /\ anim = "none"
    /\ pass = 0
    /\ rng = Seed
    /\ led = FALSE
    /\ i = 0
    /\ pos = <<0, 0>>
    /\ vel = <<0, 0>>
    /\ color_idx = 0
    /\ hit = FALSE
    /\ ring_pos = [k \in 1..NumRings |-> 0]
    /\ waited = 0
    /\ dur = 0
    /\ calls = << >>
    /\ drawn = NoneDrawn
    /\ pixels = << >>
    /\ fb_op = [op |-> "none", n |-> 0]
    /\ frame = NoFrame
    /\ lit = {}
    /\ bg = NoBackground

Next ==
    \/ TextSetup
    \/ TextStep
    \/ TextReturn
    \/ CirclesSetup
    \/ CirclesDraw
    \/ CirclesWake
    \/ CirclesReturn
    \/ PixelsSetup
    \/ PixelsStep
    \/ PixelsWake
    \/ PixelsReturn
    \/ TunnelSetup
    \/ TunnelFrame
    \/ TunnelReturn
    \/ ShowFps
    \/ Delay

Spec == Init /\ [][Next]_vars

\* main() is the one task of the executor, which runs it whenever it is ready,
\* and every Timer::after completes: a step that can be taken is taken
SpecLive == Init /\ [][Next]_vars /\ WF_vars(Next)

(***************************************************************************)
(* animation_text as entered on each of the first TextPasses passes        *)
(***************************************************************************)
InitText ==
    /\ pc = "text_setup"
    /\ anim = "none"
    /\ \E k \in 1..TextPasses : pass = k - 1 /\ rng = TextEntry[k]
    /\ led = FALSE
    /\ i = 0
    /\ pos = <<0, 0>>
    /\ vel = <<0, 0>>
    /\ color_idx = 0
    /\ hit = FALSE
    /\ ring_pos = [k \in 1..NumRings |-> 0]
    /\ waited = 0
    /\ dur = 0
    /\ calls = << >>
    /\ drawn = NoneDrawn
    /\ pixels = << >>
    /\ fb_op = [op |-> "none", n |-> 0]
    /\ frame = NoFrame
    /\ lit = {}
    /\ bg = NoBackground

NextText ==
    \/ TextSetup
    \/ TextStep
    \/ TextReturn

SpecText == InitText /\ [][NextText]_vars

(***************************************************************************)
(* A FrameBuffer on which draw_iter and clear are called                   *)
(***************************************************************************)
InitFb ==
    /\ pc = "text_setup"
    /\ anim = "none"
    /\ pass = 0
    /\ rng = Seed
    /\ led = FALSE
    /\ i = 0
    /\ pos = <<0, 0>>
    /\ vel = <<0, 0>>
    /\ color_idx = 0
    /\ hit = FALSE
    /\ ring_pos = [k \in 1..NumRings |-> 0]
    /\ waited = 0
    /\ dur = 0
    /\ calls = << >>
    /\ drawn = NoneDrawn
    /\ \E c \in FbColors : pixels = [k \in 0..(FbWidth * FbHeight - 1) |-> c]
    /\ fb_op = [op |-> "none", n |-> 0]
    /\ frame = NoFrame
    /\ lit = {}
    /\ bg = NoBackground

NextFb ==
    \/ FbDrawPixel
    \/ FbClear

SpecFb == InitFb /\ [][NextFb]_vars

(***************************************************************************)
(* show_fps called with a duration                                         *)
(***************************************************************************)
\* the durations given to show_fps, in microseconds: 0 and the first whole
\* numbers, and for each k up to MaxFpsArg the largest duration of quotient
\* k, the one after it, and k seconds
FpsDurations ==
    (0..MaxFpsArg)
    \cup {MicrosPerSecond \div k : k \in 1..MaxFpsArg}
    \cup {(MicrosPerSecond \div k) + 1 : k \in 1..MaxFpsArg}
    \cup {MicrosPerSecond * k : k \in 1..MaxFpsArg}

InitFps ==
    /\ pc = "show_fps"
    /\ anim \in {"text", "circles", "pixels", "tunnel"}
    /\ pass = 0
    /\ rng = Seed
    /\ led = FALSE
    /\ i = 0
    /\ pos = <<0, 0>>
    /\ vel = <<0, 0>>
    /\ color_idx = 0
    /\ hit = FALSE
    /\ ring_pos = [k \in 1..NumRings |-> 0]
    /\ waited = 0
    /\ dur \in FpsDurations
    /\ calls = << >>
    /\ drawn = NoneDrawn
    /\ pixels = << >>
    /\ fb_op = [op |-> "none", n |-> 0]
    /\ frame = NoFrame
    /\ lit = {}
    /\ bg = NoBackground

NextFps ==
    \/ ShowFps

SpecFps == InitFps /\ [][NextFps]_vars

(***************************************************************************)
(* An Rng on which next() is called                                        *)
(***************************************************************************)
\* the seeds given to Rng::new: the seed of main(), 0, every value of one
\* bit, and 0xFFFFFFFF
RngSeeds ==
    {Seed, <<0, 0>>, <<65535, 65535>>}
    \cup {<<2 ^ k, 0>> : k \in 0..15}
    \cup {<<0, 2 ^ k>> : k \in 0..15}

InitRng ==
    /\ pc = "rng_new"
    /\ anim = "none"
    /\ pass = 0
    /\ rng \in RngSeeds
    /\ led = FALSE
    /\ i = 0
    /\ pos = <<0, 0>>
    /\ vel = <<0, 0>>
    /\ color_idx = 0
    /\ hit = FALSE
    /\ ring_pos = [k \in 1..NumRings |-> 0]
    /\ waited = 0
    /\ dur = 0
    /\ calls = << >>
    /\ drawn = NoneDrawn
    /\ pixels = << >>
    /\ fb_op = [op |-> "none", n |-> 0]
    /\ frame = NoFrame
    /\ lit = {}
    /\ bg = NoBackground

\* a call of next(): the state is replaced, and returned; i counts the calls
RngNext ==
    /\ pc \in {"rng_new", "rng_next"}
    /\ i < MaxRngCalls
    /\ rng' = Rng_next(rng)
    /\ i' = i + 1
    /\ pc' = "rng_next"
    /\ UNCHANGED <<anim, pass, led, pos, vel, color_idx, hit, ring_pos, waited,
                   dur, calls, drawn, pixels, fb_op, frame, lit, bg>>

NextRng ==
    \/ RngNext

SpecRng == InitRng /\ [][NextRng]_vars

(***************************************************************************)
(* The per-frame loop with touch sampling.  The sources hold the           *)
(* TouchController (touch.rs) but no loop that reads it: main() of main.rs   *)
(* never queries the touch source.  The loop is modelled from the          *)
(* specification of the Touch Sampler: one query per frame, and the sample, *)
(* when there is one, drawn as a text overlay before the frame is           *)
(* presented.                                                               *)
(***************************************************************************)
\* the samples the touch source returns
TouchSamples ==
    {None} \cup {<<x, y>> : x \in {0, 7, 120, 239}, y \in {0, 45, 108, 319}}

\* the text of the overlay: the decimal digits of x, a comma, those of y
TouchText(x, y) == FpsText(x) \o << 44 >> \o FpsText(y)

\* variant of TouchOverlayCalls that draws an overlay for an absent sample
\* too (C14 depends on the absence of a draw call)
TouchOverlayAlways(sample) ==
    IF sample = None THEN << [op |-> "text", str |-> << 45 >>] >>
    ELSE << [op |-> "text", str |-> TouchText(sample[1], sample[2])] >>
\* the overlay draw calls for a sample
TouchOverlayCalls(sample) ==
    IF sample = None THEN << >>
    ELSE << [op |-> "text", str |-> TouchText(sample[1], sample[2])] >>

\* the touch source is queried and the overlay, if any, is drawn
TouchPoll ==
    /\ pc = "frame_poll"
    /\ \E sample \in TouchSamples :
          /\ frame' = [frame EXCEPT !.polls = @ + 1, !.sample = sample]
          /\ calls' = TouchOverlayCalls(sample)
    /\ pc' = "frame_present"
    /\ UNCHANGED <<anim, pass, rng, led, i, pos, vel, color_idx, hit, ring_pos,
                   waited, dur, drawn, pixels, fb_op, lit, bg>>

\* the frame is presented and the next frame begins
TouchPresent ==
    /\ pc = "frame_present"
    /\ frame.n < MaxFrames
    /\ frame' = [n |-> frame.n + 1, polls |-> 0, sample |-> None]
    /\ calls' = << >>
    /\ pc' = "frame_poll"
    /\ UNCHANGED <<anim, pass, rng, led, i, pos, vel, color_idx, hit, ring_pos,
                   waited, dur, drawn, pixels, fb_op, lit, bg>>

InitTouch ==
    /\ pc = "frame_poll"
    /\ anim = "none"
    /\ pass = 0
    /\ rng = Seed
    /\ led = FALSE
    /\ i = 0
    /\ pos = <<0, 0>>
    /\ vel = <<0, 0>>
    /\ color_idx = 0
    /\ hit = FALSE
    /\ ring_pos = [k \in 1..NumRings |-> 0]
    /\ waited = 0
    /\ dur = 0
    /\ calls = << >>
    /\ drawn = NoneDrawn
    /\ pixels = << >>
    /\ fb_op = [op |-> "none", n |-> 0]
    /\ frame = NoFrame
    /\ lit = {}
    /\ bg = NoBackground

NextTouch ==
    \/ TouchPoll
    \/ TouchPresent

SpecTouch == InitTouch /\ [][NextTouch]_vars

(***************************************************************************)
(* Properties of the FrameBuffer, under SpecFb                             *)
(***************************************************************************)
FbCells == 0..(FbWidth * FbHeight - 1)

\* C1: a pixel drawn by draw_iter at a coordinate with x outside [0, width)
\* or y outside [0, height), negative values included, leaves every cell of
\* the buffer as it was, and draw_iter returns Ok.
C1_ClippedPixelChangesNothing ==
    (/\ fb_op.op = "draw_iter"
     /\ (fb_op.x < 0 \/ fb_op.x >= FbWidth \/ fb_op.y < 0 \/ fb_op.y >= FbHeight))
    => /\ pixels = fb_op.before
       /\ fb_op.ret = "Ok"

\* a pixel one column right of the last column of a row that is not the last:
\* its row-major index is a cell of the buffer, of another colour
C1_Witness ==
    /\ fb_op.op = "draw_iter"
    /\ fb_op.x = FbWidth
    /\ fb_op.y \in 0..(FbHeight - 2)
    /\ fb_op.before[fb_op.y * FbWidth + fb_op.x] # fb_op.color
    /\ pixels = fb_op.before

\* C2: a pixel (x, y, c) drawn inside the buffer puts c in the cell of
\* row-major index y * width + x, whatever that cell held, and leaves every
\* other cell as it was.
C2_PixelOverwritesItsCell ==
    (/\ fb_op.op = "draw_iter"
     /\ fb_op.x >= 0 /\ fb_op.x < FbWidth
     /\ fb_op.y >= 0 /\ fb_op.y < FbHeight)
    => /\ DOMAIN pixels = FbCells
       /\ pixels[fb_op.y * FbWidth + fb_op.x] = fb_op.color
       /\ \A k \in FbCells :
             k # fb_op.y * FbWidth + fb_op.x => pixels[k] = fb_op.before[k]

\* a cell off both axes' origins that held the other colour, in a buffer that
\* held both colours, is overwritten
C2_Witness ==
    /\ fb_op.op = "draw_iter"
    /\ fb_op.x = FbWidth - 1
    /\ fb_op.y = 1
    /\ fb_op.before[fb_op.y * FbWidth + fb_op.x] # fb_op.color
    /\ \E k \in FbCells : fb_op.before[k] = fb_op.color
    /\ pixels[fb_op.y * FbWidth + fb_op.x] = fb_op.color

\* C3: after clear(c) every one of the width * height cells holds c, whatever
\* the buffer held before.
C3_ClearFillsEveryCell ==
    fb_op.op = "clear"
    => /\ DOMAIN pixels = FbCells
       /\ \A k \in FbCells : pixels[k] = fb_op.color

\* a clear of a buffer that held both colours, the other one in its last cell
C3_Witness ==
    /\ fb_op.op = "clear"
    /\ fb_op.before[FbWidth * FbHeight - 1] # fb_op.color
    /\ \E k \in FbCells : fb_op.before[k] = fb_op.color
    /\ \A k \in FbCells : pixels[k] = fb_op.color

(***************************************************************************)
(* Properties of animation_text, under SpecText                            *)
(***************************************************************************)
\* a state of the loop of animation_text after at least one iteration: the
\* text has been drawn at pos
TextDrawn == anim = "text" /\ i > 0

\* the index of `loop` iterations: a step that is one iteration of the loop
TextIteration == pc = "text_loop" /\ i' = i + 1

C5_DrawnExtentInsideCanvas ==
    TextDrawn
    => /\ 0 <= pos[1] /\ pos[1] + text_width <= WIDTH
       /\ 0 <= pos[2] /\ pos[2] + text_height <= HEIGHT

\* C6: in every step of the loop a velocity component changes sign exactly
\* when next_pos = pos + vel crosses the boundary of its axis (x: next_pos.x
\* <= 0 or next_pos.x + text_width >= WIDTH; y: next_pos.y <= 0 or next_pos.y
\* + text_height >= HEIGHT) and is kept otherwise, its magnitude is 2, and
\* pos is then advanced by the velocity so obtained.
C6_ReflectExactlyOnLookahead ==
    [][TextIteration =>
        LET nx == pos[1] + vel[1]
            ny == pos[2] + vel[2]
        IN  /\ vel'[1] = IF nx <= 0 \/ nx + text_width >= WIDTH
                         THEN -vel[1] ELSE vel[1]
            /\ vel'[2] = IF ny <= 0 \/ ny + text_height >= HEIGHT
                         THEN -vel[2] ELSE vel[2]
            /\ vel'[1] \in {-2, 2}
            /\ vel'[2] \in {-2, 2}
            /\ pos' = << pos[1] + vel'[1], pos[2] + vel'[2] >>]_vars

\* the text has just been reflected at the left edge: it came down to x <= 1
\* with velocity -2 after its first steps, and is now at x <= 3 moving right
C6_Witness ==
    /\ TextDrawn
    /\ i > 2
    /\ hit
    /\ vel[1] = 2
    /\ pos[1] <= 3

\* the palette index that follows k cyclically, the index of BLACK skipped
C7_Following(k) ==
    LET n == (k + 1) % 12
    IN  IF CIRCLE_COLORS[n + 1] = <<0, 0, 0>> THEN (n + 1) % 12 ELSE n

\* C7: color_idx moves to the following palette index, BLACK skipped, on a
\* step in which a velocity component was reflected, once even when both
\* were; it is unchanged on every other step; and the text is never drawn in
\* BLACK.
C7_ColourAdvancesOnBounceSkippingBlack ==
    [][TextIteration =>
        /\ color_idx' = IF vel' # vel THEN C7_Following(color_idx)
                        ELSE color_idx
        /\ CIRCLE_COLORS[color_idx' + 1] # <<0, 0, 0>>
        /\ \A k \in 1..Len(calls') :
              calls'[k].op = "text"
              => /\ calls'[k].color = CIRCLE_COLORS[color_idx' + 1]
                 /\ calls'[k].color # <<0, 0, 0>>]_vars

\* both components were reflected in the last step (x at the right edge, y by
\* a text below the line HEIGHT - text_height) and the index has wrapped
\* round the palette past BLACK
C7_Witness ==
    /\ TextDrawn
    /\ hit
    /\ vel[1] = -2 /\ pos[1] >= WIDTH - text_width - 4
    /\ pos[2] > HEIGHT - text_height
    /\ color_idx = 4
    /\ i > 12

(***************************************************************************)
(* Properties of animation_tunnel and animation_circles, under Spec        *)
(***************************************************************************)
\* a step that is one frame of the loop of animation_tunnel
TunnelIteration == pc = "tunnel_loop" /\ i' = i + 1

\* a state of the loop of animation_tunnel after at least one frame: `calls`
\* holds the draw calls of the last frame
TunnelFrameDrawn == anim = "tunnel" /\ pc = "tunnel_loop" /\ i > 0

\* C8: in each of the 300 frames the depth of each of the 10 rings moves on
\* by 4 and goes back to 0 exactly when the value so obtained is above 200;
\* so every depth is in [0, 200] after each update.
C8_DepthStepsAndWraps ==
    [][TunnelIteration =>
        /\ i < 300
        /\ DOMAIN ring_pos' = 1..10
        /\ \A k \in 1..10 :
              /\ ring_pos'[k] = IF ring_pos[k] + 4 > 200 THEN 0
                                ELSE ring_pos[k] + 4
              /\ 0 <= ring_pos'[k] /\ ring_pos'[k] <= 200]_vars

\* after the last frame ring 1 is at depth 200, which is kept, and ring 2,
\* which has gone back to 0 six times, at depth 16
C8_Witness ==
    /\ anim = "tunnel"
    /\ i = 300
    /\ ring_pos[2] = 200
    /\ ring_pos[3] = 16

\* the circle calls of `calls` for ring k (0-based)
C9_CirclesOfRing(k) ==
    {j \in 1..Len(calls) : calls[j].op = "circle" /\ calls[j].idx = k}

\* C9: each frame of the tunnel begins with one clear to BLACK; in a frame a
\* ring is drawn, once and in its palette colour, if and only if that colour
\* CIRCLE_COLORS[k % 12] is not BLACK; the ring of index 3 is drawn in no
\* frame, so no circle is drawn in BLACK; and the depth of ring 3 moves on
\* like every other: after frame n it is (60 + 4 n) modulo 204.
C9_BlackRingSkipped ==
    TunnelFrameDrawn
    => /\ calls[1] = [op |-> "clear", color |-> <<0, 0, 0>>]
       /\ \A j \in 2..Len(calls) : calls[j].op = "circle"
       /\ \A k \in 0..9 :
             /\ Cardinality(C9_CirclesOfRing(k)) =
                   IF CIRCLE_COLORS[(k % 12) + 1] # <<0, 0, 0>> THEN 1 ELSE 0
             /\ \A j \in C9_CirclesOfRing(k) :
                   calls[j].color = CIRCLE_COLORS[(k % 12) + 1]
       /\ C9_CirclesOfRing(3) = {}
       /\ \A j \in 2..Len(calls) : calls[j].color # <<0, 0, 0>>
       /\ ring_pos[4] = (60 + 4 * i) % 204

\* a frame in which the nine other rings are drawn and ring 3 has just gone
\* back to depth 0
C9_Witness ==
    /\ TunnelFrameDrawn
    /\ Len(calls) = 10
    /\ ring_pos[4] = 0
    /\ i > 1

\* the invocation of animation_circles has returned
CirclesReturned == anim = "circles" /\ pc \in {"show_fps", "delay"}

\* C10 as stated: one pass of animation_circles issues exactly 12 stroked
\* circle draw calls after a single clear, and no erase.
C10_TwelveCircles ==
    CirclesReturned
    => /\ drawn.circle = 12
       /\ drawn.clear = 1
       /\ drawn.fill_rect = 0

\* C10 as amended: one pass of animation_circles issues exactly 13 stroked
\* circle draw calls after a single initial clear and with no erase: first a
\* BLACK circle of radius 30 round the display centre, then the 12
\* satellites, satellite k (k = 0..11) centred at angle 30 k degrees at
\* distance 30 from the display centre, of radius 30 and colour
\* CIRCLE_COLORS[k % 12].
C10_CentreCircleAndTwelveSatellites ==
    /\ (anim = "circles" /\ pc = "circles_loop" /\ i = 0)
       => /\ Len(calls) = 2
          /\ calls[1] = [op |-> "clear", color |-> <<31, 63, 31>>]
          /\ calls[2] = [op |-> "circle", idx |-> -1, orbit |-> 0, deg |-> 0,
                         radius |-> 30, color |-> <<0, 0, 0>>, stroke |-> 2]
    /\ (anim = "circles" /\ pc = "circles_wait")
       => /\ i \in 0..11
          /\ calls = << [op |-> "circle", idx |-> i, orbit |-> 30,
                         deg |-> 30 * i, radius |-> 30,
                         color |-> CIRCLE_COLORS[(i % 12) + 1],
                         stroke |-> 2] >>
          /\ drawn.circle = i + 2
    /\ (anim = "circles" /\ pc \in {"circles_loop", "circles_wait"})
       => drawn.clear = 1 /\ drawn.fill_rect = 0 /\ drawn.text = 0
    /\ CirclesReturned
       => /\ i = 12
          /\ drawn.circle = 13
          /\ drawn.clear = 1
          /\ drawn.fill_rect = 0
          /\ drawn.text = 0

\* animation_circles has returned after its 13 circles
C10_Witness ==
    /\ CirclesReturned
    /\ pc = "show_fps"
    /\ i = 12
    /\ drawn.circle = 13

(***************************************************************************)
(* Properties of show_fps, under SpecFps                                   *)
(***************************************************************************)
\* show_fps has returned
FpsShown == pc = "delay"

RECURSIVE C11_Value(_)
\* the number a string of decimal digits denotes, first digit most significant
C11_Value(str) ==
    IF str = << >> THEN 0
    ELSE 10 * C11_Value(SubSeq(str, 1, Len(str) - 1)) + (str[Len(str)] - 48)

\* C11: show_fps draws nothing when the duration is 0 microseconds; for a
\* duration of micros > 0 it issues exactly one text draw, whose string is the
\* decimal representation, most significant digit first and without leading
\* zeros, of the quotient 1000000 / micros: "1" for 1000000, "2" for 500000,
\* "0" for every micros > 1000000.
C11_FpsTextIsDecimalQuotient ==
    FpsShown
    => /\ dur = 0 => calls = << >>
       /\ dur > 0 =>
             /\ Len(calls) = 1
             /\ calls[1].op = "text"
             /\ Len(calls[1].str) >= 1
             /\ \A k \in 1..Len(calls[1].str) : calls[1].str[k] \in 48..57
             /\ Len(calls[1].str) > 1 => calls[1].str[1] # 48
             /\ C11_Value(calls[1].str) = 1000000 \div dur
       /\ dur = 1000000 => calls[1].str = << 49 >>
       /\ dur = 500000 => calls[1].str = << 50 >>
       /\ dur > 1000000 => calls[1].str = << 48 >>

\* show_fps has drawn "125000" for a duration of 8 microseconds
C11_Witness ==
    /\ FpsShown
    /\ dur = 8
    /\ Len(calls) = 1
    /\ calls[1].str = << 49, 50, 53, 48, 48, 48 >>

\* show_fps has returned without a draw call for a duration of 0
C11_WitnessZero ==
    /\ FpsShown
    /\ dur = 0
    /\ calls = << >>

(***************************************************************************)
(* Properties of the loop of main(), under Spec                            *)
(***************************************************************************)
\* the animation that follows `a` in the loop of main()
C12_After(a) ==
    CASE a = "none" -> "text"
      [] a = "text" -> "circles"
      [] a = "circles" -> "pixels"
      [] a = "pixels" -> "tunnel"
      [] a = "tunnel" -> "text"

\* the positions of main() inside animation `a`, its entry included
C12_PcsOf(a) ==
    CASE a = "text" -> {"text_setup", "text_loop"}
      [] a = "circles" -> {"circles_setup", "circles_loop", "circles_wait"}
      [] a = "pixels" -> {"pixels_setup", "pixels_loop", "pixels_wait"}
      [] a = "tunnel" -> {"tunnel_setup", "tunnel_loop"}

\* C12: the loop of main() runs the animations one at a time in the cyclic
\* order text, circles, pixels, tunnel; when an animation returns show_fps is
\* called, once, with the duration it returned, then a delay of one second
\* completes, and only then does the next animation start; so every draw call
\* is issued by the one running animation or by show_fps.
C12_OneAnimationAtATimeInOrder ==
    [][/\ anim' # anim =>
             /\ anim' = C12_After(anim)
             /\ pc \in C12_PcsOf(anim')
             /\ pc' \in C12_PcsOf(anim')
             /\ anim # "none" => waited = 1000000
       /\ (pc' = "show_fps" /\ pc # "show_fps") =>
             /\ pc \in C12_PcsOf(anim)
             /\ anim' = anim
             /\ calls' = << >>
       /\ pc = "show_fps" =>
             /\ pc' = "delay"
             /\ anim' = anim /\ dur' = dur
             /\ Len(calls') <= 1
             /\ \A k \in 1..Len(calls') :
                   /\ calls'[k].op = "text"
                   /\ C11_Value(calls'[k].str) = 1000000 \div dur
       /\ pc = "delay" =>
             /\ pc' \in C12_PcsOf(C12_After(anim))
             /\ anim' = anim /\ dur' = dur
             /\ waited' = 1000000
             /\ calls' = << >>
       /\ (pc' = "delay" /\ pc # "delay") => pc = "show_fps"
       /\ (pc \notin {"show_fps", "delay"} /\ pc' \notin {"show_fps", "delay"})
             => pc' \in C12_PcsOf(anim')
       /\ calls' # << >> => (pc = "show_fps" \/ pc \in C12_PcsOf(anim'))
      ]_vars

\* the second pass of the loop has reached the circles after the text, its
\* report and the delay
C12_Witness ==
    /\ pc = "circles_setup"
    /\ anim = "text"
    /\ pass = 1
    /\ waited = 1000000

(***************************************************************************)
(* Properties of Rng, under SpecRng                                        *)
(***************************************************************************)
\* C13: a call of next() on a state that is not zero leaves a state, which is
\* the value returned, that is not zero, so an Rng seeded with a value other
\* than zero (main() seeds 0xACE1) never holds or returns zero; and next() on
\* the state zero leaves zero.
C13_StateZeroOnlyFromZero ==
    [][(pc' = "rng_next" /\ i' = i + 1) =>
          /\ rng # <<0, 0>> => rng' # <<0, 0>>
          /\ rng = <<0, 0>> => rng' = <<0, 0>>
          /\ rng'[1] \in 0..65535 /\ rng'[2] \in 0..65535]_vars

\* the generator seeded with 0xACE1 holds 0x0E4EDD34 after 100 calls of next()
C13_Witness ==
    /\ pc = "rng_next"
    /\ i = 100
    /\ rng = <<3662, 56628>>

(***************************************************************************)
(* Properties of the per-frame loop with touch sampling, under SpecTouch   *)
(***************************************************************************)
\* the string str holds the decimal representation of v
C14_Contains(str, v) ==
    \E a \in 1..Len(str) : \E b \in a..Len(str) :
       /\ \A k \in a..b : str[k] \in 48..57
       /\ (b > a => str[a] # 48)
       /\ C11_Value(SubSeq(str, a, b)) = v

\* C14: a frame whose touch sample is None is presented with no overlay draw
\* call, a frame whose sample is Some((x, y)) with exactly one overlay text
\* draw, issued before the presentation, whose text holds the decimal values
\* of x and of y; and the touch source is queried once in each frame.
C14_OverlayOnlyForASample ==
    /\ pc = "frame_present" =>
          /\ frame.polls = 1
          /\ frame.sample = << >> => calls = << >>
          /\ frame.sample # << >> =>
                /\ Len(calls) = 1
                /\ calls[1].op = "text"
                /\ C14_Contains(calls[1].str, frame.sample[1])
                /\ C14_Contains(calls[1].str, frame.sample[2])
    /\ pc = "frame_poll" => (frame.polls = 0 /\ calls = << >>)

\* a frame after the first in which the sample (239, 108) has been drawn as
\* "239,108" and which waits for its presentation
C14_Witness ==
    /\ pc = "frame_present"
    /\ frame.n > 0
    /\ frame.sample = <<239, 108>>
    /\ calls = << [op |-> "text", str |-> <<50, 51, 57, 44, 49, 48, 56>>] >>

C16_Running(a) == pc \in C12_PcsOf(a)

\* animation `a` has just returned
C16_Returned(a) == pc = "show_fps" /\ anim = a

\* an upper bound of the steps of main() from the state to the return of the
\* running animation, 0 once it has returned
C16_StepsLeft ==
    CASE pc = "text_setup" -> 1000 + 2
      [] pc = "text_loop" -> (1000 - i) + 1
      [] pc = "circles_setup" -> 2 * 12 + 2
      [] pc = "circles_loop" -> 2 * (12 - i) + 1
      [] pc = "circles_wait" -> 2 * (12 - i)
      [] pc = "pixels_setup" -> 2 * 2400 + 2
      [] pc = "pixels_loop" -> 2 * (2400 - i) + 1
      [] pc = "pixels_wait" -> 2 * (2400 - i)
      [] pc = "tunnel_setup" -> 300 + 2
      [] pc = "tunnel_loop" -> (300 - i) + 1
      [] OTHER -> 0

\* a step of the running animation is possible; the two steps that take
\* numbers from the generator ask nothing of it: the setup of the text is
\* always possible, an iteration of the pixel field under its loop condition
C16_CanStep ==
    \/ pc = "text_setup"
    \/ ENABLED <<TextStep \/ TextReturn>>_vars
    \/ ENABLED <<CirclesSetup \/ CirclesDraw \/ CirclesWake
                  \/ CirclesReturn>>_vars
    \/ ENABLED <<PixelsSetup \/ PixelsWake \/ PixelsReturn>>_vars
    \/ (pc = "pixels_loop" /\ i < 2400)
    \/ ENABLED <<TunnelSetup \/ TunnelFrame \/ TunnelReturn>>_vars

\* C16: when every timed delay completes, every invocation of an animation
\* returns, with a duration, after the fixed number of iterations of its
\* loop: the text after 1000 steps, the circles after the 12 draws of their
\* loop, the pixel field after 240 * 320 / 32 = 2400 iterations, the tunnel
\* after 300 frames.  Stated with a measure: while an animation runs a step
\* of main() is possible, which weak fairness then takes, and every step
\* brings the return nearer; the loop is left in no other way and at no
\* other count.
C16_AnimationsReturnAtTheirBound ==
    /\ [](/\ C16_Returned("text") =>
              (i = 1000 /\ drawn.text = 1000 /\ dur >= 1000 * 5000)
          /\ C16_Returned("circles") =>
              (i = 12 /\ drawn.circle - 1 = 12 /\ dur >= 12 * 50000)
          /\ C16_Returned("pixels") =>
              (i = 2400 /\ drawn.fill_rect = 2400 /\ dur >= 0)
          /\ C16_Returned("tunnel") =>
              (i = 300 /\ drawn.clear = 300 /\ dur >= 300 * 100)
          /\ C16_StepsLeft >= 0
          /\ C16_StepsLeft > 0 => C16_CanStep)
    /\ [][C16_StepsLeft > 0 =>
             /\ C16_StepsLeft' < C16_StepsLeft
             /\ (C16_StepsLeft' = 0 =>
                    \E a \in {"text", "circles", "pixels", "tunnel"} :
                       C16_Returned(a)' /\ C16_Running(a))]_vars

\* the pixel field of the second pass has returned after 2400 iterations
C16_Witness ==
    /\ C16_Returned("pixels")
    /\ pass = 1
    /\ i = 2400
    /\ drawn.fill_rect = 2400

(***************************************************************************)
(* The indicator of animation_text, under SpecText                         *)
(***************************************************************************)
\* C17: after every step of the bouncing text the indicator output is high if
\* and only if the step reflected a velocity component, and low after every
\* step that reflected none.
C17_IndicatorHighExactlyOnBounce ==
    [][TextIteration => (led' = TRUE <=> vel' # vel)]_vars

\* the indicator is low again after a step without a bounce that followed
\* bounces: the colour index has moved and the last step reflected nothing
C17_Witness ==
    /\ TextDrawn
    /\ color_idx > 0
    /\ ~hit
    /\ led = FALSE

\* the indicator is high after a step that reflected the text at the right edge
C17_WitnessHigh ==
    /\ TextDrawn
    /\ led = TRUE
    /\ vel = <<-2, 2>>
    /\ pos[1] + text_width >= WIDTH - 4

(***************************************************************************)
(* The random pixel field, under Spec                                      *)
(***************************************************************************)
\* a state of animation_pixels after an iteration has drawn: `calls` holds
\* its draw call
PixelsBlockDrawn ==
    /\ anim = "pixels"
    /\ pc \in {"pixels_loop", "pixels_wait"}
    /\ calls # << >>
    /\ calls[1].op = "fill_rect"

\* C18: every iteration of the pixel field fills one block of 4 x 4 pixels
\* whose origin is on the grid (x a multiple of 4 from 0 to WIDTH - 4, y a
\* multiple of 4 from 0 to HEIGHT - 4), so that the block is inside the
\* canvas, in a colour with r <= 31, g <= 63 and b <= 31; an invocation does
\* 240 * 320 / 32 = 2400 such iterations after one clear.
C18_BlocksOnGridInsideCanvas ==
    [][/\ (pc = "pixels_setup" /\ pc' # pc) =>
             (calls' = << [op |-> "clear", color |-> <<31, 63, 31>>] >>
              /\ drawn'.clear = 1 /\ drawn'.fill_rect = 0 /\ i' = 0)
       /\ (pc = "pixels_loop" /\ pc' = "show_fps") =>
             (i = 2400 /\ drawn.fill_rect = 2400 /\ drawn.clear = 1
              /\ drawn' = drawn)
       /\ (pc = "pixels_wait" /\ pc' # pc) => (drawn' = drawn /\ i' = i + 1)
       /\ (pc = "pixels_loop" /\ pc' # "show_fps" /\ rng' # rng) =>
          /\ i < 2400
          /\ Len(calls') = 1
          /\ calls'[1].op = "fill_rect"
          /\ calls'[1].anchor = "top_left"
          /\ calls'[1].w = 4 /\ calls'[1].h = 4
          /\ calls'[1].x \in {4 * k : k \in 0..59}
          /\ calls'[1].y \in {4 * k : k \in 0..79}
          /\ 0 <= calls'[1].x /\ calls'[1].x + calls'[1].w <= 240
          /\ 0 <= calls'[1].y /\ calls'[1].y + calls'[1].h <= 320
          /\ calls'[1].color[1] \in 0..31
          /\ calls'[1].color[2] \in 0..63
          /\ calls'[1].color[3] \in 0..31
          /\ drawn'.fill_rect = drawn.fill_rect + 1
          /\ drawn'.clear = 1
          /\ (pc' = "pixels_loop" => i' = i + 1)
          /\ (pc' = "pixels_wait" => i' = i)]_vars

\* a block has been drawn in the last column and the last row of the grid
C18_Witness ==
    /\ PixelsBlockDrawn
    /\ calls[1].x = 236
    /\ calls[1].y = 316

(***************************************************************************)
(* The path of the bouncing text, under SpecText                           *)
(***************************************************************************)
\* C19: the text is never held at an edge: a step that reflects a velocity
\* component is followed by a step that does not reflect that component.  The
\* step that follows reflects a component exactly when its lookahead
\* pos + vel crosses the boundary of that axis (C6), so the claim is that
\* after a reflection on an axis the next lookahead on that axis crosses
\* nothing.
C19_NoReflectionInConsecutiveSteps ==
    [][(TextIteration /\ i' < 1000) =>
          /\ vel'[1] # vel[1] =>
                ~(\/ pos'[1] + vel'[1] <= 0
                  \/ pos'[1] + vel'[1] + 80 >= 240)
          /\ vel'[2] # vel[2] =>
                ~(\/ pos'[2] + vel'[2] <= 0
                  \/ pos'[2] + vel'[2] + 20 >= 320)]_vars

(***************************************************************************)
(* The display during animation_text, under SpecText                       *)
(***************************************************************************)
\* C20: the bouncing text leaves no trail.  After the draw of each step the
\* only bounding box of the display that can hold a pixel that is not BLACK
\* is that of the text at the current position, because the erase of the
\* step is a BLACK rectangle on exactly the bounding box in which the step
\* before drew (that of the text at the position before the move), and the
\* setup clears the display to BLACK.
C20_NoTrail ==
    [][/\ (pc = "text_setup" /\ pc' = "text_loop") =>
             (calls' = << [op |-> "clear", color |-> <<0, 0, 0>>] >>
              /\ lit' = {})
       /\ TextIteration =>
             /\ lit' = {pos'}
             /\ Len(calls') = 2
             /\ calls'[1] = [op |-> "fill_rect", anchor |-> "bbox",
                             x |-> pos[1], y |-> pos[2], w |-> 80, h |-> 20,
                             color |-> <<0, 0, 0>>]
             /\ calls'[2].op = "text"
             /\ <<calls'[2].x, calls'[2].y>> = pos'
             /\ i > 0 => (/\ calls[2].op = "text"
                          /\ calls'[1].x = calls[2].x
                          /\ calls'[1].y = calls[2].y
                          /\ lit = {<<calls[2].x, calls[2].y>>})]_vars

\* after the last of the 1000 steps, which moved the text away from where the
\* step before drew it, the display holds the text at its position only
C20_Witness ==
    /\ TextDrawn
    /\ i = 1000
    /\ calls[1].op = "fill_rect"
    /\ <<calls[1].x, calls[1].y>> # pos
    /\ lit = {pos}

(***************************************************************************)
(* The report of show_fps on the display, under Spec                       *)
(***************************************************************************)
\* show_fps has drawn its report after the animation `anim`
FpsReportDrawn == pc = "delay" /\ calls # << >>

\* C21: the report of show_fps can be seen after every animation: whenever
\* show_fps draws its text in the loop of main(), the colour of the text is
\* not the colour to which the animation that has just returned last cleared
\* the display.
C21_FpsReportVisible ==
    FpsReportDrawn
    => \A k \in 1..Len(calls) :
          calls[k].op = "text" => calls[k].color # bg

====
